---- MODULE Spec2Model ----
(***************************************************************************)
(* ugly.net: the ephemeral TCP test server (a SocketServer.TCPServer       *)
(* subclass), its scoped start/stop, and the readiness poller.             *)
(*                                                                         *)
(* Time is counted in ticks.  One tick is half of serve_forever()'s poll   *)
(* interval (0.5 s), so the constructor's default timeout of 0.5 s is two  *)
(* ticks.  A step of a running thread takes no time: time passes only      *)
(* while every running thread is blocked in select() or sleeping.          *)
(***************************************************************************)
EXTENDS Integers, Sequences, FiniteSets

\* ------------------------------------------------------------------ bounds
MaxConns == 2          \* connections (clients and probes) opened in one run
MaxElapsed == 4        \* the clocks that measure a wait stop counting here
MaxDepth == 2          \* with blocks of one kind that are open at once
MaxEntities == 2       \* entities given to one adopt() call
MaxStack == 3          \* nested adopt() calls before the interpreter gives up

\* --------------------------------------------------------------- constants
Servers == {"s1", "s2"}          \* the Server objects of a scenario
Ports == {9000, 9001}            \* (address, port) pairs on localhost
NUL == 0                         \* the terminator byte '\0'
Messages == {<<1>>, <<2>>}       \* payloads: non-NUL bytes
Timeouts == {1, 2}               \* constructor timeouts; 2 ticks = 0.5 s
PollInterval == 2                \* serve_forever(poll_interval=0.5)
PollTimeouts == {1, 2}           \* timeouts handed to the poller

NoServer == "none"

ModuleNames == {"a", "b", "c"}   \* names given to installed_module()
NoExit == [name |-> "", how |-> "none"]

StdOut == <<"stdout", 0>>                    \* the stream sys.stdout starts as
StdErr == <<"stderr", 0>>                    \* the stream sys.stderr starts as
None == <<"None", 0>>                        \* output=None
Given == {<<"given", 1>>, <<"given", 2>>}    \* file-like objects handed in
NoWrite == [to |-> "", stream |-> None]

\* The objects handed to adopt(): two classes, the unbound method Class.method and
\* the function it wraps, a function, the integer 3 and the built-in type dict.
Entities == {"Class", "Inner", "Class_method", "method", "function", "three", "dict"}
Methods == {"Class_method"}
im_func == [e \in Methods |-> "method"]
PyModules == {"m"}               \* module.__name__ of the adopting module
\* __module__ of the objects that have one of their own, as they are defined
DefinedIn ==
    [e \in {"Class", "Inner", "method", "function", "dict"} |->
        IF e = "dict" THEN "__builtin__" ELSE "test"]
\* The attributes of the classes, as they are defined:
\* class Class: { class Inner; def method; value = 3; builtin = dict }
ClassBody ==
    [c \in {"Class", "Inner"} |->
        IF c = "Class" THEN {"Inner", "Class_method", "three", "dict"} ELSE {}]
\* The order in which dir() lists the attributes that hold these objects.
DirOrder == <<"Class", "Inner", "dict", "function", "Class_method", "method", "three">>
\* The keys and the values of the dictionary handed to temp_key(); None is a
\* value like any other.
Keys == {"a", "b"}
DictValues == {None, <<"value", 1>>}

VARIABLES
    \* the Server objects
    port,              \* self.port           (0 while not constructed)
    message,           \* self.message
    timeout,           \* self.timeout
    sock,              \* self.socket: "none" | "listening" | "closed"
    backlog,           \* the listening socket's queue of established connections
    shutdown_request,  \* BaseServer.__shutdown_request
    is_shut_down,      \* BaseServer.__is_shut_down (a threading.Event)
    \* the thread of control inside serve_forever() / handle_request()
    tpc,               \* "none" | "started" | "test" | "select" | "accepted"
                       \* | "handled" | "finally" | "returning" | "done"
    mode,              \* "forever" (serve_forever) | "once" (handle_request)
    selLeft,           \* ticks left before select() gives up
    cur,               \* the connection being handled (0: none)
    raisedInLoop,      \* an exception is propagating out of the call
    \* scoped use
    scope,             \* "none" | "entered" | "exited"
    bodyRaised,        \* the with block's body raised
    \* the caller of the server's API
    dpc,               \* "idle" | "shutdown_wait" | "shutdown_returned" | "join"
                       \* | "exit_returned" | "in_handle_request"
    dsrv,              \* the server the caller is operating on
    inExit,            \* the caller is inside __exit__
    lastError,         \* the last error a constructor raised ("" | "AddressInUse")
    \* the network
    conns,             \* every connection attempted so far
    timeWait,          \* pairs held by a connection in TIME_WAIT
    \* observation
    sdElapsed,         \* ticks since shutdown() was invoked on a running loop
    nHandled,          \* connections accepted by the current handle_request()
    everBound,         \* the pairs some listener has been bound to
    \* the readiness poller
    ppc,               \* wait_server_up: "idle" | "attempt" | "sleep" | "ok" | "timeout"
                       \* wait_server_down: "d_attempt" | "d_sleep" | "d_ok" | "d_timeout"
    pport,             \* target port
    ptimeout,          \* its timeout
    pelapsed,          \* ticks since the call began
    praised,           \* the errors the call surfaced to its caller
    pprobe,            \* the probe socket: "none" | "open" | "closed"
    \* ugly.module: installed_module
    sys_modules,       \* the names that are keys of sys.modules
    mstack,            \* the installed_module contexts that are open, innermost last
    lastExit,          \* the installed_module context left last, and how
    \* inelegant.io: redirect_stdout, redirect_stderr
    sys_stdout,        \* sys.stdout (a stream)
    sys_stderr,        \* sys.stderr
    rstack,            \* the redirections that are open, innermost last
    lastWrite,         \* who wrote last, and the stream that received it
    \* ugly.module: adopt
    module_of,         \* __module__ of every object that has one
    attrs,             \* the attributes of every class
    astack,            \* the frames of the adopt() calls in progress
    aresult,           \* "none" | "running" | "returned" | "AdoptException" | "RuntimeError"
    areported,         \* the messages of the AdoptException
    aargs,             \* the arguments of the outermost adopt() call
    module_before,     \* __module__ of every object when that call began
    \* inelegant.dict: temp_key
    d,                 \* the dictionary: a function from the keys it holds
    tstack,            \* the temp_key contexts that are open, innermost last
    tlast              \* the temp_key context left last, and what its exit raised itself

srvVars == <<port, message, timeout, sock, backlog, shutdown_request, is_shut_down>>
thrVars == <<tpc, mode, selLeft, cur, raisedInLoop>>
drvVars == <<scope, bodyRaised, dpc, dsrv, inExit, lastError>>
netVars == <<conns, timeWait>>
obsVars == <<sdElapsed, nHandled, everBound>>
pollVars == <<ppc, pport, ptimeout, pelapsed, praised, pprobe>>
modVars == <<sys_modules, mstack, lastExit>>
ioVars == <<sys_stdout, sys_stderr, rstack, lastWrite>>
adoptVars == <<module_of, attrs, astack, aresult, areported, aargs, module_before>>
dictVars == <<d, tstack, tlast>>
pyVars == <<modVars, ioVars, adoptVars, dictVars>>
netAll == <<srvVars, thrVars, drvVars, netVars, obsVars, pollVars>>
vars == <<netAll, pyVars>>

\* ------------------------------------------------------------- helpers
Min(a, b) == IF a < b THEN a ELSE b

\* Mutant: the terminator is forgotten.
ResponseWithoutNul(s) == message[s]

\* self.server.message+'\0'
Response(s) == Append(message[s], NUL)

IsPrefix(a, b) == Len(a) <= Len(b) /\ SubSeq(b, 1, Len(a)) = a

Listeners(p) == {s \in Servers : sock[s] = "listening" /\ port[s] = p}

ThreadAlive(s) == tpc[s] \notin {"none", "done"}

InLoop(s) == tpc[s] \in {"select", "accepted", "handled"}


Ready(s) == sock[s] = "listening" /\ backlog[s] # <<>>

\* The thread of control is inside serve_forever(): at the loop test, in the
\* loop, or in the finally clause that ends it.
InServeForever(s) ==
    \/ tpc[s] \in {"test", "finally"}
    \/ InLoop(s) /\ mode[s] = "forever"

\* The lifecycle state the specification speaks of, read off the object: Stopped
\* once the listening socket is closed, or once a serve loop has been shut down
\* (the event __is_shut_down is set from the end of one serve_forever() to the
\* beginning of the next).
State(s) ==
    IF sock[s] = "none" THEN "Unbound"
    ELSE IF sock[s] = "closed" THEN "Stopped"
    ELSE IF InServeForever(s) THEN "Serving"
    ELSE IF is_shut_down[s] THEN "Stopped"
    ELSE "Bound"

\* ---------------------------------------------------------------- Init
Init ==
    /\ port = [s \in Servers |-> 0]
    /\ message = [s \in Servers |-> <<>>]
    /\ timeout = [s \in Servers |-> 0]
    /\ sock = [s \in Servers |-> "none"]
    /\ backlog = [s \in Servers |-> <<>>]
    /\ shutdown_request = [s \in Servers |-> FALSE]
    /\ is_shut_down = [s \in Servers |-> FALSE]
    /\ tpc = [s \in Servers |-> "none"]
    /\ mode = [s \in Servers |-> "forever"]
    /\ selLeft = [s \in Servers |-> 0]
    /\ cur = [s \in Servers |-> 0]
    /\ raisedInLoop = [s \in Servers |-> FALSE]
    /\ scope = [s \in Servers |-> "none"]
    /\ bodyRaised = [s \in Servers |-> FALSE]
    /\ dpc = "idle"
    /\ dsrv = NoServer
    /\ inExit = FALSE
    /\ lastError = ""
    /\ conns = <<>>
    /\ timeWait = [p \in Ports |-> FALSE]
    /\ sdElapsed = [s \in Servers |-> 0]
    /\ nHandled = [s \in Servers |-> 0]
    /\ everBound = {}
    /\ ppc = "idle"
    /\ pport = 0
    /\ ptimeout = 0
    /\ pelapsed = 0
    /\ praised = <<>>
    /\ pprobe = "none"
    /\ sys_modules = {}
    /\ mstack = <<>>
    /\ lastExit = NoExit
    /\ sys_stdout = StdOut
    /\ sys_stderr = StdErr
    /\ rstack = <<>>
    /\ lastWrite = NoWrite
    /\ module_of = DefinedIn
    /\ attrs = ClassBody
    /\ astack = <<>>
    /\ aresult = "none"
    /\ areported = <<>>
    /\ aargs = <<>>
    /\ module_before = DefinedIn
    /\ d = [k \in {} |-> None]
    /\ tstack = <<>>
    /\ tlast = NoExit

\* ------------------------------------------------- Server.__init__
\* TCPServer.server_bind() with allow_reuse_address = False: the bind fails
\* while another listener holds the pair, and also while a connection the old
\* listener closed first is still in TIME_WAIT on it.
\* Mutant: the bind never fails.
BindNeverFails(p) == TRUE

CanBind(p) == Listeners(p) = {} /\ ~timeWait[p]

Server_init(s, p, m, t) ==
    /\ dpc = "idle"
    /\ sock[s] = "none"
    /\ IF CanBind(p)
       THEN /\ port' = [port EXCEPT ![s] = p]
            /\ message' = [message EXCEPT ![s] = m]
            /\ timeout' = [timeout EXCEPT ![s] = t]
            /\ sock' = [sock EXCEPT ![s] = "listening"]
            /\ everBound' = everBound \cup {p}
            /\ UNCHANGED lastError
       ELSE /\ lastError' = "AddressInUse"
            /\ UNCHANGED <<port, message, timeout, sock, everBound>>
    /\ UNCHANGED <<backlog, shutdown_request, is_shut_down, thrVars, scope, bodyRaised,
                   dpc, dsrv, inExit, netVars, sdElapsed, nHandled, pollVars,
                   pyVars>>

\* ------------------------------------------- starting the serve thread
\* Mutant: no thread is started.
ThreadNotStarted(s) == UNCHANGED <<tpc, mode, raisedInLoop, nHandled, selLeft, cur>>

\* threading.Thread(target=...).start(): the thread exists, and has not run yet.
ThreadStarted(s) ==
    /\ tpc' = [tpc EXCEPT ![s] = "started"]
    /\ mode' = [mode EXCEPT ![s] = "forever"]
    /\ raisedInLoop' = [raisedInLoop EXCEPT ![s] = FALSE]
    /\ nHandled' = [nHandled EXCEPT ![s] = 0]
    /\ UNCHANGED <<selLeft, cur>>

\* Server.__enter__: start the thread, sleep 0.01 s, return.
Server_enter(s) ==
    /\ dpc = "idle"
    /\ sock[s] # "none"
    /\ scope[s] # "entered"
    /\ ~ThreadAlive(s)
    /\ ThreadStarted(s)
    /\ scope' = [scope EXCEPT ![s] = "entered"]
    /\ bodyRaised' = [bodyRaised EXCEPT ![s] = FALSE]
    /\ UNCHANGED <<srvVars, dpc, dsrv, inExit, lastError, netVars, sdElapsed,
                   everBound, pollVars,
                   pyVars>>

\* thread = threading.Thread(target=server.serve_forever); thread.start()
Thread_start(s) ==
    /\ dpc = "idle"
    /\ sock[s] # "none"
    /\ scope[s] # "entered"
    /\ ~ThreadAlive(s)
    /\ ThreadStarted(s)
    /\ UNCHANGED <<srvVars, drvVars, netVars, sdElapsed, everBound, pollVars,
                   pyVars>>

\* ------------------------------------------------------ serve_forever
\* Mutant: serve_forever() begins by withdrawing a shutdown request made before it.
RequestClearedAtLoopStart(s) == [shutdown_request EXCEPT ![s] = FALSE]

\* serve_forever() leaves __shutdown_request as it finds it: a shutdown() that came
\* first is seen by the first loop test.
RequestAtLoopStart(s) == shutdown_request

\* Server._start -> serve_forever(): self.__is_shut_down.clear()
serve_forever_begin(s) ==
    /\ tpc[s] = "started"
    /\ is_shut_down' = [is_shut_down EXCEPT ![s] = FALSE]
    /\ shutdown_request' = RequestAtLoopStart(s)
    /\ tpc' = [tpc EXCEPT ![s] = "test"]
    /\ UNCHANGED <<port, message, timeout, sock, backlog, mode, selLeft,
                   cur, raisedInLoop, drvVars, netVars, obsVars, pollVars,
                   pyVars>>

\* Mutant: the serve loop polls less often than every poll interval.
SelectTimeoutTooLong(s, md) == IF md = "forever" THEN PollInterval + 1 ELSE timeout[s]

\* The time select() waits at most: serve_forever's poll interval, or, in
\* handle_request(), self.timeout (the listening socket has no timeout of its own).
SelectTimeout(s, md) == IF md = "forever" THEN PollInterval ELSE timeout[s]

\* while not self.__shutdown_request: select.select([self], [], [], poll_interval)
\* select() on a closed socket raises; the exception leaves through the finally.
serve_forever_test(s) ==
    /\ tpc[s] = "test"
    /\ IF shutdown_request[s]
       THEN /\ tpc' = [tpc EXCEPT ![s] = "finally"]
            /\ UNCHANGED <<selLeft, raisedInLoop>>
       ELSE IF sock[s] = "closed"
       THEN /\ tpc' = [tpc EXCEPT ![s] = "finally"]
            /\ raisedInLoop' = [raisedInLoop EXCEPT ![s] = TRUE]
            /\ UNCHANGED selLeft
       ELSE /\ tpc' = [tpc EXCEPT ![s] = "select"]
            /\ selLeft' = [selLeft EXCEPT ![s] = SelectTimeout(s, "forever")]
            /\ UNCHANGED raisedInLoop
    /\ UNCHANGED <<srvVars, mode, cur, drvVars, netVars, sdElapsed, nHandled,
                   everBound, pollVars,
                   pyVars>>

\* finally: self.__shutdown_request = False; self.__is_shut_down.set()
serve_forever_finally(s) ==
    /\ tpc[s] = "finally"
    /\ shutdown_request' = [shutdown_request EXCEPT ![s] = FALSE]
    /\ is_shut_down' = [is_shut_down EXCEPT ![s] = TRUE]
    /\ tpc' = [tpc EXCEPT ![s] = "returning"]
    /\ sdElapsed' = [sdElapsed EXCEPT ![s] = 0]
    /\ UNCHANGED <<port, message, timeout, sock, backlog, mode, selLeft, cur, raisedInLoop,
                   drvVars, netVars, nHandled, everBound, pollVars,
                   pyVars>>


\* serve_forever() returns (or its exception leaves), Server._start returns and
\* the thread ends.
Server_start_return(s) ==
    /\ tpc[s] = "returning"
    /\ tpc' = [tpc EXCEPT ![s] = "done"]
    /\ UNCHANGED <<srvVars, mode, selLeft, cur, raisedInLoop, drvVars, netVars, obsVars,
                   pollVars,
                   pyVars>>

\* --------------------------------------------- one request, both modes
\* Mutant: handle_request loops like serve_forever.
AfterRequestLoops(md) == "test"

\* Mutant: serve_forever returns after one request, as handle_request does.
AfterRequestReturns(md) == "done"

\* What follows one request: serve_forever loops, handle_request returns.
AfterRequest(md) == IF md = "forever" THEN "test" ELSE "done"

\* The call on the caller's thread (handle_request) has returned.
CallerResumes(s, next) ==
    IF mode[s] = "once" /\ next = "done"
    THEN dpc' = "idle"
    ELSE dpc' = dpc

\* select() returned with the listening socket readable:
\* _handle_request_noblock() -> get_request() -> self.socket.accept()
get_request(s) ==
    /\ tpc[s] = "select"
    /\ Ready(s)
    /\ LET c == Head(backlog[s]) IN
        /\ backlog' = [backlog EXCEPT ![s] = Tail(@)]
        /\ conns' = [conns EXCEPT ![c].srv = "accepted"]
        /\ cur' = [cur EXCEPT ![s] = c]
    /\ tpc' = [tpc EXCEPT ![s] = "accepted"]
    /\ nHandled' = [nHandled EXCEPT ![s] = IF mode[s] = "once" THEN @ + 1 ELSE @]
    /\ UNCHANGED <<port, message, timeout, sock, shutdown_request, is_shut_down, mode,
                   selLeft, raisedInLoop, drvVars, timeWait, sdElapsed, everBound, pollVars,
                   pyVars>>

\* select() gave up: serve_forever tests the flag again; handle_request calls
\* handle_timeout() and returns.
select_timeout(s) ==
    /\ tpc[s] = "select"
    /\ ~Ready(s)
    /\ selLeft[s] = 0
    /\ tpc' = [tpc EXCEPT ![s] = AfterRequest(mode[s])]
    /\ CallerResumes(s, AfterRequest(mode[s]))
    /\ UNCHANGED <<srvVars, mode, selLeft, cur, raisedInLoop, scope, bodyRaised, dsrv,
                   inExit, lastError, netVars, obsVars, pollVars,
                   pyVars>>

\* The bytes sendall() may have put on the wire when it returns or raises: all of
\* them while the peer is connected, any prefix once the peer has gone.
Written(c, data) ==
    IF conns[c].cli = "open" THEN {Len(data)} ELSE 0 .. Len(data)

\* What the handler leaves unread of the client's bytes: it never calls recv().
HandlerLeavesUnread(c) == conns[c].unread

\* Mutant: the handler's exception leaves the serve call.
HandlerErrorEscapes(s, failed) == [raisedInLoop EXCEPT ![s] = @ \/ failed]

\* An exception of the handler is caught around process_request() and given to
\* handle_error(): nothing propagates.
AfterHandlerError(s, failed) == raisedInLoop

\* ServerHandler.handle: self.request.sendall(self.server.message+'\0')
ServerHandler_handle(s) ==
    /\ tpc[s] = "accepted"
    /\ LET c == cur[s]
           data == Response(s)
       IN \E k \in Written(c, data) :
            /\ conns' = [conns EXCEPT ![c].rx = @ \o SubSeq(data, 1, k),
                                      ![c].err = (k < Len(data)),
                                      ![c].unread = HandlerLeavesUnread(c)]
            /\ raisedInLoop' = AfterHandlerError(s, k < Len(data))
    /\ tpc' = [tpc EXCEPT ![s] = "handled"]
    /\ UNCHANGED <<srvVars, mode, selLeft, cur, drvVars, timeWait, obsVars, pollVars,
                   pyVars>>

\* Mutant: the connection's socket is left open after the request.
ConnLeftOpen == "accepted"

\* The server's end of a connection after shutdown_request(request): closed.
ConnAfterRequest == "closed"

\* shutdown_request(request): the server closes the connection.  Closing first,
\* with the peer still connected, leaves the server's end in TIME_WAIT.
shutdown_request_conn(s) ==
    /\ tpc[s] = "handled"
    /\ LET c == cur[s] IN
        /\ conns' = [conns EXCEPT ![c].srv = ConnAfterRequest]
        /\ timeWait' = [timeWait EXCEPT ![port[s]] = @ \/ conns[c].cli = "open"]
    /\ cur' = [cur EXCEPT ![s] = 0]
    /\ tpc' = [tpc EXCEPT ![s] = AfterRequest(mode[s])]
    /\ CallerResumes(s, AfterRequest(mode[s]))
    /\ UNCHANGED <<srvVars, mode, selLeft, raisedInLoop, scope, bodyRaised, dsrv, inExit,
                   lastError, obsVars, pollVars,
                   pyVars>>

\* server.handle_request() on the caller's thread: select() for self.timeout.
handle_request(s) ==
    /\ dpc = "idle"
    /\ sock[s] = "listening"
    /\ ~ThreadAlive(s)
    /\ tpc' = [tpc EXCEPT ![s] = "select"]
    /\ mode' = [mode EXCEPT ![s] = "once"]
    /\ selLeft' = [selLeft EXCEPT ![s] = SelectTimeout(s, "once")]
    /\ raisedInLoop' = [raisedInLoop EXCEPT ![s] = FALSE]
    /\ nHandled' = [nHandled EXCEPT ![s] = 0]
    /\ dpc' = "in_handle_request"
    /\ dsrv' = s
    /\ UNCHANGED <<srvVars, cur, scope, bodyRaised, inExit, lastError, netVars, sdElapsed,
                   everBound, pollVars,
                   pyVars>>

\* ------------------------------------------------- shutdown and close
\* BaseServer.shutdown(): self.__shutdown_request = True, then wait.
shutdown_begin(s) ==
    /\ shutdown_request' = [shutdown_request EXCEPT ![s] = TRUE]
    /\ sdElapsed' = [sdElapsed EXCEPT ![s] = 0]
    /\ dpc' = "shutdown_wait"
    /\ dsrv' = s

shutdown(s) ==
    /\ dpc = "idle"
    /\ sock[s] # "none"
    /\ shutdown_begin(s)
    /\ UNCHANGED <<port, message, timeout, sock, backlog, is_shut_down, thrVars, scope,
                   bodyRaised, inExit, lastError, netVars, nHandled, everBound, pollVars,
                   pyVars>>

\* Mutant: shutdown() only raises the flag and does not wait.
ShutdownDoesNotWait(s) == TRUE

\* self.__is_shut_down.wait() returns once the event is set.
ShutdownMayReturn(s) == is_shut_down[s]

shutdown_return ==
    /\ dpc = "shutdown_wait"
    /\ ShutdownMayReturn(dsrv)
    /\ dpc' = "shutdown_returned"
    /\ UNCHANGED <<srvVars, thrVars, scope, bodyRaised, dsrv, inExit, lastError, netVars,
                   obsVars, pollVars,
                   pyVars>>

\* The caller goes on after a bare shutdown().
shutdown_done ==
    /\ dpc = "shutdown_returned"
    /\ ~inExit
    /\ dpc' = "idle"
    /\ UNCHANGED <<srvVars, thrVars, scope, bodyRaised, dsrv, inExit, lastError, netVars,
                   obsVars, pollVars,
                   pyVars>>

\* TCPServer.server_close(): self.socket.close().  Connections still queued on
\* the listening socket are reset.
\* Mutant: server_close() leaves the listening socket open.
SocketLeftOpen(s) == sock

SocketAfterClose(s) == [sock EXCEPT ![s] = "closed"]

Closed(s) ==
    /\ sock' = SocketAfterClose(s)
    /\ backlog' = [backlog EXCEPT ![s] = <<>>]
    /\ conns' = [c \in DOMAIN conns |->
                    IF conns[c].srv = "queued" /\ conns[c].to = s
                    THEN [conns[c] EXCEPT !.srv = "reset"]
                    ELSE conns[c]]

server_close(s) ==
    /\ dpc = "idle"
    /\ sock[s] # "none"
    /\ Closed(s)
    /\ UNCHANGED <<port, message, timeout, shutdown_request, is_shut_down, thrVars,
                   drvVars, timeWait, sdElapsed, nHandled,
                   everBound, pollVars,
                   pyVars>>


\* ------------------------------------------------------ Server.__exit__
\* self.shutdown() ...
Server_exit(s, raised) ==
    /\ dpc = "idle"
    /\ scope[s] = "entered"
    /\ shutdown_begin(s)
    /\ inExit' = TRUE
    /\ bodyRaised' = [bodyRaised EXCEPT ![s] = raised]
    /\ UNCHANGED <<port, message, timeout, sock, backlog, is_shut_down, thrVars, scope,
                   lastError, netVars, nHandled, everBound, pollVars,
                   pyVars>>

\* ... self.server_close() ...
exit_server_close ==
    /\ dpc = "shutdown_returned"
    /\ inExit
    /\ Closed(dsrv)
    /\ dpc' = "join"
    /\ UNCHANGED <<port, message, timeout, shutdown_request, is_shut_down, thrVars, scope,
                   bodyRaised, dsrv, inExit, lastError, timeWait, sdElapsed, nHandled, everBound, pollVars,
                   pyVars>>

\* Mutant: __exit__ does not join the thread.
ExitDoesNotJoin(s) == TRUE

\* ... self.thread.join(): returns once the thread has ended.
JoinMayReturn(s) == ~ThreadAlive(s)

exit_join ==
    /\ dpc = "join"
    /\ JoinMayReturn(dsrv)
    /\ dpc' = "exit_returned"
    /\ scope' = [scope EXCEPT ![dsrv] = "exited"]
    /\ UNCHANGED <<srvVars, thrVars, bodyRaised, dsrv, inExit, lastError, netVars, obsVars,
                   pollVars,
                   pyVars>>

\* The with statement is left (the body's exception, if any, propagates).
exit_done ==
    /\ dpc = "exit_returned"
    /\ dpc' = "idle"
    /\ inExit' = FALSE
    /\ UNCHANGED <<srvVars, thrVars, scope, bodyRaised, dsrv, lastError, netVars, obsVars,
                   pollVars,
                   pyVars>>

\* -------------------------------------------------------------- clients
PollerActive == ppc \in {"attempt", "sleep", "d_attempt", "d_sleep"}

\* Mutant: a connect() succeeds whether or not anything listens.
ConnectAlwaysSucceeds(p) == TRUE

\* A connect() to the pair succeeds while a socket listens on it.
ConnectSucceeds(p) == Listeners(p) # {}

Target(p) == IF Listeners(p) # {} THEN CHOOSE s \in Listeners(p) : TRUE ELSE NoServer

NewConn(p, kind, cli, unread) ==
    [port |-> p, kind |-> kind,
     cli |-> IF ConnectSucceeds(p) THEN cli ELSE "gone",
     srv |-> IF ConnectSucceeds(p) THEN "queued" ELSE "refused",
     to |-> Target(p), rx |-> <<>>,
     unread |-> IF ConnectSucceeds(p) THEN unread ELSE 0,
     err |-> FALSE]

Connected(p, kind, cli, unread) ==
    /\ conns' = Append(conns, NewConn(p, kind, cli, unread))
    /\ backlog' = IF ConnectSucceeds(p) /\ Target(p) # NoServer
                  THEN [backlog EXCEPT ![Target(p)] = Append(@, Len(conns) + 1)]
                  ELSE backlog

\* with contextlib.closing(get_socket()) as s: s.connect(('localhost', 9000))
\* The client writes one byte of its own, which waits unread at the server.
client_connect(p) ==
    /\ Len(conns) + (IF PollerActive THEN 1 ELSE 0) < MaxConns
    /\ Connected(p, "client", "open", 1)
    /\ UNCHANGED <<port, message, timeout, sock, shutdown_request, is_shut_down, thrVars,
                   drvVars, timeWait, obsVars, pollVars,
                   pyVars>>

\* The client disconnects before the server has answered it.
client_close(c) ==
    /\ c \in DOMAIN conns
    /\ conns[c].kind = "client"
    /\ conns[c].cli = "open"
    /\ conns[c].srv \in {"queued", "accepted"}
    /\ conns' = [conns EXCEPT ![c].cli = "gone"]
    /\ UNCHANGED <<srvVars, thrVars, drvVars, timeWait, obsVars, pollVars,
                   pyVars>>

\* The TIME_WAIT period of the pair ends (or the peer's reset ends it).
timeWait_expire(p) ==
    /\ timeWait[p]
    /\ timeWait' = [timeWait EXCEPT ![p] = FALSE]
    /\ UNCHANGED <<srvVars, thrVars, drvVars, conns, obsVars, pollVars,
                   pyVars>>

\* --------------------------------------------------------------- poller
PollerCall(p, t) ==
    /\ pport' = p
    /\ ptimeout' = t
    /\ pelapsed' = 0
    /\ praised' = <<>>
    /\ pprobe' = "none"

wait_server_up(p, t) ==
    /\ ~PollerActive
    /\ Len(conns) < MaxConns
    /\ ppc' = "attempt"
    /\ PollerCall(p, t)
    /\ UNCHANGED <<srvVars, thrVars, drvVars, netVars, obsVars,
                   pyVars>>

\* Mutant: the probe socket is kept.
ProbeLeftOpen == "open"

\* The probe socket after its one connection attempt: closed.
ProbeAfterAttempt == "closed"

\* One probe: a fresh socket, one connect, closed at once.  A refused connect is
\* swallowed and retried after a sleep.
wait_server_up_attempt ==
    /\ ppc = "attempt"
    /\ pelapsed < ptimeout
    /\ IF ConnectSucceeds(pport)
       THEN /\ Connected(pport, "probe", "gone", 0)
            /\ ppc' = "ok"
       ELSE /\ ppc' = "sleep"
            /\ UNCHANGED <<conns, backlog>>
    /\ pprobe' = ProbeAfterAttempt
    /\ UNCHANGED <<port, message, timeout, sock, shutdown_request, is_shut_down, thrVars,
                   drvVars, timeWait, obsVars, pport, ptimeout, pelapsed, praised,
                   pyVars>>

\* Mutant: the last refused connect is what the caller gets.
ConnectionErrorSurfaced == [type |-> "ConnectionRefused", port |-> pport, elapsed |-> pelapsed]

\* The error of a poll that ran out of time: address, port and elapsed time.
TimeoutError == [type |-> "Timeout", port |-> pport, elapsed |-> pelapsed]

\* No attempt succeeded before the timeout elapsed: one Timeout error.
wait_server_up_timeout ==
    /\ ppc = "attempt"
    /\ pelapsed >= ptimeout
    /\ praised' = Append(praised, TimeoutError)
    /\ ppc' = "timeout"
    /\ UNCHANGED <<srvVars, thrVars, drvVars, netVars, obsVars, pport, ptimeout, pelapsed,
                   pprobe,
                   pyVars>>

\* wait_server_down(address, port, timeout): the same loop, waiting for a connect
\* to fail.
wait_server_down(p, t) ==
    /\ ~PollerActive
    /\ Len(conns) + t <= MaxConns
    /\ ppc' = "d_attempt"
    /\ PollerCall(p, t)
    /\ UNCHANGED <<srvVars, thrVars, drvVars, netVars, obsVars,
                   pyVars>>

\* Mutant: the call returns after its first attempt, whatever its outcome.
DownAttemptAlwaysFails(p) == TRUE

\* The attempt that ends the wait: the connect is refused.
DownAttemptFailed(p) == ~ConnectSucceeds(p)

\* One probe.  A connect that succeeds is closed at once and retried after a
\* sleep; the first that fails ends the call.
wait_server_down_attempt ==
    /\ ppc = "d_attempt"
    /\ pelapsed < ptimeout
    /\ IF DownAttemptFailed(pport)
       THEN /\ ppc' = "d_ok"
            /\ UNCHANGED <<conns, backlog>>
       ELSE /\ Connected(pport, "probe", "gone", 0)
            /\ ppc' = "d_sleep"
    /\ pprobe' = ProbeAfterAttempt
    /\ UNCHANGED <<port, message, timeout, sock, shutdown_request, is_shut_down, thrVars,
                   drvVars, timeWait, obsVars, pport, ptimeout, pelapsed, praised,
                   pyVars>>

\* Every attempt succeeded until the timeout elapsed: one Timeout error.
wait_server_down_timeout ==
    /\ ppc = "d_attempt"
    /\ pelapsed >= ptimeout
    /\ praised' = Append(praised, TimeoutError)
    /\ ppc' = "d_timeout"
    /\ UNCHANGED <<srvVars, thrVars, drvVars, netVars, obsVars, pport, ptimeout, pelapsed,
                   pprobe,
                   pyVars>>

\* ----------------------------------------------------------------- time
\* A thread that can take a step takes it before time passes.
Blocked(s) == tpc[s] \in {"none", "done"} \/ (tpc[s] = "select" /\ ~Ready(s) /\ selLeft[s] > 0)

Tick ==
    /\ \A s \in Servers : Blocked(s)
    /\ ppc \notin {"attempt", "d_attempt"}
    /\ (\E s \in Servers : tpc[s] = "select") \/ ppc \in {"sleep", "d_sleep"}
    /\ selLeft' = [s \in Servers |-> IF tpc[s] = "select" THEN selLeft[s] - 1 ELSE selLeft[s]]
    /\ sdElapsed' = [s \in Servers |->
                        IF shutdown_request[s] /\ tpc[s] = "select" /\ mode[s] = "forever"
                        THEN Min(sdElapsed[s] + 1, MaxElapsed)
                        ELSE sdElapsed[s]]
    /\ pelapsed' = IF ppc \in {"sleep", "d_sleep"}
                   THEN Min(pelapsed + 1, MaxElapsed)
                   ELSE pelapsed
    /\ ppc' = IF ppc = "sleep" THEN "attempt"
              ELSE IF ppc = "d_sleep" THEN "d_attempt"
              ELSE ppc
    /\ UNCHANGED <<srvVars, tpc, mode, cur, raisedInLoop, drvVars, netVars, nHandled, everBound, pport, ptimeout,
                   praised, pprobe,
                   pyVars>>

\* ----------------------------------------------------------------- Next
\* The thread of control inside serve_forever() or handle_request().
ServeStep(s) ==
    \/ serve_forever_begin(s)
    \/ serve_forever_test(s)
    \/ serve_forever_finally(s)
    \/ Server_start_return(s)
    \/ get_request(s)
    \/ select_timeout(s)
    \/ ServerHandler_handle(s)
    \/ shutdown_request_conn(s)

\* The calls a test makes on a constructed server.
CallerStep(s) ==
    \/ Server_enter(s)
    \/ \E raised \in BOOLEAN : Server_exit(s, raised)
    \/ Thread_start(s)
    \/ handle_request(s)
    \/ shutdown(s)
    \/ server_close(s)

CallerResume ==
    \/ shutdown_return
    \/ shutdown_done
    \/ exit_server_close
    \/ exit_join
    \/ exit_done

ClientStep(p) ==
    \/ client_connect(p)
    \/ \E c \in DOMAIN conns : client_close(c)
    \/ timeWait_expire(p)

PollerStep ==
    \/ wait_server_up_attempt
    \/ wait_server_up_timeout
    \/ wait_server_down_attempt
    \/ wait_server_down_timeout

\* One server on one pair, used in every way the API allows, and its clients.
Next ==
    \/ \E m \in Messages, t \in Timeouts : Server_init("s1", 9000, m, t)
    \/ CallerStep("s1")
    \/ CallerResume
    \/ ServeStep("s1")
    \/ ClientStep(9000)
    \/ Tick

Spec == Init /\ [][Next]_vars


\* Two servers and two pairs: the first server is used through the with
\* statement and answers clients, the second is constructed and closed by hand.
NextBind ==
    \/ \E s \in Servers, p \in Ports : Server_init(s, p, <<1>>, 2)
    \/ Server_enter("s1")
    \/ Server_exit("s1", FALSE)
    \/ server_close("s2")
    \/ shutdown_return
    \/ exit_server_close
    \/ exit_join
    \/ exit_done
    \/ ServeStep("s1")
    \/ \E p \in Ports : client_connect(p)
    \/ \E p \in Ports : timeWait_expire(p)
    \/ Tick

SpecBind == Init /\ [][NextBind]_vars

\* A test that polls for a server which is bound, served and shut down while the
\* poller runs.
NextPoll ==
    \/ \E p \in Ports, m \in Messages : Server_init("s1", p, m, 2)
    \/ Server_enter("s1")
    \/ Server_exit("s1", FALSE)
    \/ shutdown_return
    \/ exit_server_close
    \/ exit_join
    \/ exit_done
    \/ ServeStep("s1")
    \/ \E p \in Ports, t \in PollTimeouts : wait_server_up(p, t)
    \/ \E p \in Ports, t \in PollTimeouts : wait_server_down(p, t)
    \/ PollerStep
    \/ Tick

SpecPoll == Init /\ [][NextPoll]_vars

\* A test that waits for the server with wait_server_up and then connects a
\* client of its own.  The server runs serve_forever() in a thread, or one
\* handle_request() followed by server_close().  A thread that can run does run.
NextProbe ==
    \/ \E m \in Messages : Server_init("s1", 9000, m, 2)
    \/ Thread_start("s1")
    \/ handle_request("s1")
    \/ server_close("s1")
    \/ shutdown("s1")
    \/ shutdown_return
    \/ shutdown_done
    \/ ServeStep("s1")
    \/ \E t \in PollTimeouts : wait_server_up(9000, t)
    \/ wait_server_up_attempt
    \/ wait_server_up_timeout
    \/ client_connect(9000)
    \/ Tick

SpecProbe == Init /\ [][NextProbe]_vars /\ WF_vars(ServeStep("s1"))

\* A server used through the with statement, whose body may itself call
\* shutdown() or server_close(), and its clients.  Every thread that can run does
\* run, and time passes.
NextExit ==
    \/ \E t \in Timeouts : Server_init("s1", 9000, <<1>>, t)
    \/ Server_enter("s1")
    \/ \E raised \in BOOLEAN : Server_exit("s1", raised)
    \/ shutdown("s1")
    \/ server_close("s1")
    \/ CallerResume
    \/ ServeStep("s1")
    \/ client_connect(9000)
    \/ Tick

SpecExit ==
    /\ Init /\ [][NextExit]_vars
    /\ WF_vars(ServeStep("s1"))
    /\ WF_vars(CallerResume)
    /\ WF_vars(Tick)

\* ===================================================== ugly.module: modules
\* create_module(name, code, scope, defs): adopt(module, *defs) may raise before
\* the module is put in sys.modules; exec of the code may raise after it.
\* fails: "no" | "adopt" | "code"
Created(name, fails) == IF fails = "adopt" THEN sys_modules ELSE sys_modules \cup {name}

create_module(name, fails) ==
    /\ sys_modules' = Created(name, fails)
    /\ lastExit' = NoExit
    /\ UNCHANGED <<mstack, ioVars, adoptVars, netAll, dictVars>>

\* with installed_module(name, ...) as m: the generator runs up to its yield.  If
\* create_module() raises, the with block is not entered.
installed_module_enter(name, fails) ==
    /\ Len(mstack) < MaxDepth
    /\ sys_modules' = Created(name, fails)
    /\ mstack' = IF fails = "no" THEN Append(mstack, name) ELSE mstack
    /\ lastExit' = NoExit
    /\ UNCHANGED <<ioVars, adoptVars, netAll, dictVars>>

\* The with block is left.  On a normal exit the generator resumes after the yield
\* and runs del sys.modules[name]; an exception of the body is thrown into the
\* generator at the yield, which is in no try statement, and the del is not run.
ModulesAfterExit(name, raised) == IF raised THEN sys_modules ELSE sys_modules \ {name}

installed_module_exit(raised) ==
    /\ mstack # <<>>
    /\ LET name == mstack[Len(mstack)] IN
        /\ sys_modules' = ModulesAfterExit(name, raised)
        /\ lastExit' = [name |-> name,
                        how |-> IF raised THEN "body_raised"
                                ELSE IF name \notin sys_modules THEN "KeyError"
                                ELSE "ok"]
    /\ mstack' = SubSeq(mstack, 1, Len(mstack) - 1)
    /\ UNCHANGED <<ioVars, adoptVars, netAll, dictVars>>

NextModule ==
    \/ \E name \in ModuleNames, fails \in {"no", "adopt", "code"} : create_module(name, fails)
    \/ \E name \in ModuleNames, fails \in {"no", "adopt", "code"} :
           installed_module_enter(name, fails)
    \/ \E raised \in BOOLEAN : installed_module_exit(raised)

SpecModule == Init /\ [][NextModule]_vars

\* ============================================================ inelegant.io
\* if output is None: output = StringIO()
\* A new StringIO is told apart by the depth of the with block that made it.
OutputOrNew(output) == IF output = None THEN <<"StringIO", Len(rstack) + 1>> ELSE output

\* The standard stream a redirection is about.
Stream(target) == IF target = "stdout" THEN sys_stdout ELSE sys_stderr

\* temp, sys.stdout = sys.stdout, output   (sys.stderr in redirect_stderr)
Redirected(target, stream) ==
    /\ sys_stdout' = IF target = "stdout" THEN stream ELSE sys_stdout
    /\ sys_stderr' = IF target = "stderr" THEN stream ELSE sys_stderr

redirect_enter(target, output) ==
    /\ Len(rstack) < MaxDepth
    /\ rstack' = Append(rstack, [target |-> target, temp |-> Stream(target),
                                 output |-> OutputOrNew(output)])
    /\ Redirected(target, OutputOrNew(output))
    /\ UNCHANGED <<lastWrite, modVars, adoptVars, netAll, dictVars>>

\* with redirect_stdout(output) as o:
redirect_stdout(output) == redirect_enter("stdout", output)

\* with redirect_stderr(output) as o:
redirect_stderr(output) == redirect_enter("stderr", output)

\* Mutant: the exit puts back the stream the process started with.
RestoredToOriginal(target, temp) == IF target = "stdout" THEN StdOut ELSE StdErr

\* finally: sys.stdout = temp
Restored(target, temp) == temp

\* The innermost redirection is left, normally or by an exception of its body.
redirect_exit(raised) ==
    /\ rstack # <<>>
    /\ LET top == rstack[Len(rstack)] IN
        Redirected(top.target, Restored(top.target, top.temp))
    /\ rstack' = SubSeq(rstack, 1, Len(rstack) - 1)
    /\ UNCHANGED <<lastWrite, modVars, adoptVars, netAll, dictVars>>

\* print ...  /  sys.stderr.write(...)
write(target) ==
    /\ lastWrite' = [to |-> target, stream |-> Stream(target)]
    /\ UNCHANGED <<sys_stdout, sys_stderr, rstack, modVars, adoptVars, netAll, dictVars>>

NextIO ==
    \/ \E output \in Given \cup {None} : redirect_stdout(output)
    \/ \E output \in Given \cup {None} : redirect_stderr(output)
    \/ \E raised \in BOOLEAN : redirect_exit(raised)
    \/ \E target \in {"stdout", "stderr"} : write(target)

SpecIO == Init /\ [][NextIO]_vars

\* ======================================================= ugly.module: adopt
\* inspect.ismethod(obj) / inspect.isclass(obj)
ismethod(obj) == obj \in Methods
isclass(obj) == obj \in {"Class", "Inner", "dict"}

\* get_adoptable_value(obj): the function of a method, else the object.
get_adoptable_value(obj) == IF ismethod(obj) THEN im_func[obj] ELSE obj

\* hasattr(obj, '__module__'): a method shows the attribute of its function.
hasattr_module(obj) == get_adoptable_value(obj) \in DOMAIN module_of

\* is_module_rewritable(obj): obj.__module__ = obj.__module__ does not raise.
\* It raises for a built-in type, for a method object, and where there is no
\* attribute to read.
is_module_rewritable(obj) == obj \in {"Class", "Inner", "method", "function"}

\* is_adoptable(obj)
is_adoptable(obj) ==
    /\ hasattr_module(get_adoptable_value(obj))
    /\ is_module_rewritable(get_adoptable_value(obj))

\* obj.__module__
getattr_module(obj) == module_of[get_adoptable_value(obj)]

\* Mutant: only the first unadoptable entity is found.
FirstUnadoptable(entities) ==
    LET all == SelectSeq(entities, LAMBDA e : ~is_adoptable(e)) IN
        IF all = <<>> THEN <<>> ELSE <<Head(all)>>

\* unadoptable = [e for e in entities if not is_adoptable(e)]
Unadoptables(entities) == SelectSeq(entities, LAMBDA e : ~is_adoptable(e))

\* AdoptException.__init__(self, *objs): one message for each object that has no
\* __module__ or cannot have it set.
RECURSIVE AdoptException(_)
AdoptException(objs) ==
    IF objs = <<>> THEN <<>>
    ELSE (IF ~hasattr_module(Head(objs))
          THEN <<[obj |-> Head(objs), why |-> "has no __module__ attribute"]>>
          ELSE IF ~is_module_rewritable(Head(objs))
          THEN <<[obj |-> Head(objs), why |-> "__module__ attribute is ready-only"]>>
          ELSE <<>>)
         \o AdoptException(Tail(objs))

Top == astack[Len(astack)]
Frame(entities) == [module |-> "", entities |-> entities, i |-> 1, ph |-> "check", rest |-> {}]

\* The first of a set of attributes in dir() order.
FirstOf(as) ==
    DirOrder[CHOOSE k \in DOMAIN DirOrder :
                /\ DirOrder[k] \in as
                /\ \A j \in 1 .. (k - 1) : DirOrder[j] \notin as]

\* A test gives a class one more attribute (Inner.outer = Class, Class.me = Class).
class_setattr(c, e) ==
    /\ aresult # "running"
    /\ e \notin attrs[c]
    /\ attrs' = [attrs EXCEPT ![c] = @ \cup {e}]
    /\ UNCHANGED <<module_of, astack, aresult, areported, aargs, module_before, modVars,
                   ioVars, netAll, dictVars>>

\* adopt(module, *entities), called by a test
adopt(module, entities) ==
    /\ aresult # "running"
    /\ astack' = <<[Frame(entities) EXCEPT !.module = module]>>
    /\ aresult' = "running"
    /\ areported' = <<>>
    /\ aargs' = entities
    /\ module_before' = module_of
    /\ UNCHANGED <<module_of, attrs, modVars, ioVars, netAll, dictVars>>

\* unadoptable = [...]; if unadoptable: raise AdoptException(*unadoptable)
\* Nothing catches the exception: it ends every adopt() call in progress.
adopt_check ==
    /\ astack # <<>>
    /\ Top.ph = "check"
    /\ IF Unadoptables(Top.entities) # <<>>
       THEN /\ aresult' = "AdoptException"
            /\ areported' = AdoptException(Unadoptables(Top.entities))
            /\ astack' = <<>>
       ELSE /\ astack' = [astack EXCEPT ![Len(astack)].ph = "next"]
            /\ UNCHANGED <<aresult, areported>>
    /\ UNCHANGED <<module_of, attrs, aargs, module_before, modVars, ioVars, netAll, dictVars>>

\* for entity in entities: entity = get_adoptable_value(entity);
\* if inspect.isclass(entity): for a in get_adoptable_attrs(entity): ...
\* After the last entity the call returns.
adopt_next ==
    /\ astack # <<>>
    /\ Top.ph = "next"
    /\ IF Top.i > Len(Top.entities)
       THEN /\ astack' = SubSeq(astack, 1, Len(astack) - 1)
            /\ aresult' = IF Len(astack) = 1 THEN "returned" ELSE aresult
       ELSE /\ LET entity == get_adoptable_value(Top.entities[Top.i]) IN
                astack' = IF isclass(entity)
                          THEN [astack EXCEPT ![Len(astack)].ph = "attrs",
                                              ![Len(astack)].rest = attrs[entity]]
                          ELSE [astack EXCEPT ![Len(astack)].ph = "set"]
            /\ UNCHANGED aresult
    /\ UNCHANGED <<module_of, attrs, areported, aargs, module_before, modVars, ioVars,
                   netAll, dictVars>>

\* get_adoptable_attrs(obj) yields its next attribute a with
\* is_adoptable(a) and a.__module__ == obj.__module__ ; the loop calls
\* adopt(module, a).  A call nested too deeply raises RuntimeError.
adopt_attr ==
    /\ astack # <<>>
    /\ Top.ph = "attrs"
    /\ Top.rest # {}
    /\ LET obj == get_adoptable_value(Top.entities[Top.i])
           a == FirstOf(Top.rest)
           rest == [astack EXCEPT ![Len(astack)].rest = @ \ {a}]
       IN IF is_adoptable(a) /\ getattr_module(a) = getattr_module(obj)
          THEN IF Len(astack) < MaxStack
               THEN /\ astack' = Append(rest, [Frame(<<a>>) EXCEPT !.module = Top.module])
                    /\ UNCHANGED aresult
               ELSE /\ astack' = <<>>
                    /\ aresult' = "RuntimeError"
          ELSE /\ astack' = rest
               /\ UNCHANGED aresult
    /\ UNCHANGED <<module_of, attrs, areported, aargs, module_before, modVars, ioVars,
                   netAll, dictVars>>

\* The attributes are exhausted.
adopt_attrs_done ==
    /\ astack # <<>>
    /\ Top.ph = "attrs"
    /\ Top.rest = {}
    /\ astack' = [astack EXCEPT ![Len(astack)].ph = "set"]
    /\ UNCHANGED <<module_of, attrs, aresult, areported, aargs, module_before, modVars,
                   ioVars, netAll, dictVars>>

\* entity.__module__ = module.__name__
adopt_set ==
    /\ astack # <<>>
    /\ Top.ph = "set"
    /\ module_of' = [module_of EXCEPT ![get_adoptable_value(Top.entities[Top.i])] = Top.module]
    /\ astack' = [astack EXCEPT ![Len(astack)].ph = "next", ![Len(astack)].i = @ + 1]
    /\ UNCHANGED <<attrs, aresult, areported, aargs, module_before, modVars, ioVars, netAll, dictVars>>

NextAdopt ==
    \/ \E c \in DOMAIN ClassBody : class_setattr(c, "Class")
    \/ \E module \in PyModules, n \in 1 .. MaxEntities :
           \E entities \in [1 .. n -> Entities] : adopt(module, entities)
    \/ adopt_check
    \/ adopt_next
    \/ adopt_attr
    \/ adopt_attrs_done
    \/ adopt_set

SpecAdopt == Init /\ [][NextAdopt]_vars

\* ========================================================== inelegant.dict
\* d[key] = value
SetItem(dd, key, value) ==
    [k \in DOMAIN dd \cup {key} |-> IF k = key THEN value ELSE dd[k]]

\* del d[key]
DelItem(dd, key) == [k \in DOMAIN dd \ {key} |-> dd[k]]

\* Mutant: a key that holds None is taken for a key that is not there.
KeyHoldsValue(dd, key) == key \in DOMAIN dd /\ dd[key] # None

\* if key in d:
KeyIn(dd, key) == key \in DOMAIN dd

\* with temp_key(d, key, value): the code up to the yield.
\* before is what the dictionary held for key as the call found it, kept apart
\* from what the code remembers of it.
temp_key(key, value) ==
    /\ Len(tstack) < MaxDepth
    /\ LET key_existed == KeyIn(d, key)
           previous_value == IF key_existed THEN d[key] ELSE None
       IN tstack' = Append(tstack, [key |-> key, value |-> value,
                                    key_existed |-> key_existed,
                                    previous_value |-> previous_value,
                                    before |-> [k \in DOMAIN d \cap {key} |-> d[k]]])
    /\ d' = SetItem(d, key, value)
    /\ UNCHANGED <<tlast, modVars, ioVars, adoptVars, netAll>>

\* The innermost temp_key context is left, normally or by an exception of its
\* body: the finally clause.  del d[key] raises KeyError when the body has
\* already deleted the key.
temp_key_exit(raised) ==
    /\ tstack # <<>>
    /\ LET top == tstack[Len(tstack)] IN
        IF top.key_existed
        THEN /\ d' = SetItem(d, top.key, top.previous_value)
             /\ tlast' = [name |-> top.key, raised |-> raised, error |-> ""]
        ELSE IF top.key \in DOMAIN d
        THEN /\ d' = DelItem(d, top.key)
             /\ tlast' = [name |-> top.key, raised |-> raised, error |-> ""]
        ELSE /\ d' = d
             /\ tlast' = [name |-> top.key, raised |-> raised, error |-> "KeyError"]
    /\ tstack' = SubSeq(tstack, 1, Len(tstack) - 1)
    /\ UNCHANGED <<modVars, ioVars, adoptVars, netAll>>

\* The code around and inside the with blocks: d[key] = value
dict_setitem(key, value) ==
    /\ d' = SetItem(d, key, value)
    /\ UNCHANGED <<tstack, tlast, modVars, ioVars, adoptVars, netAll>>

\* The code around and inside the with blocks: del d[key]
dict_delitem(key) ==
    /\ key \in DOMAIN d
    /\ d' = DelItem(d, key)
    /\ UNCHANGED <<tstack, tlast, modVars, ioVars, adoptVars, netAll>>

NextDict ==
    \/ \E key \in Keys, value \in DictValues : temp_key(key, value)
    \/ \E raised \in BOOLEAN : temp_key_exit(raised)
    \/ \E key \in Keys, value \in DictValues : dict_setitem(key, value)
    \/ \E key \in Keys : dict_delitem(key)

SpecDict == Init /\ [][NextDict]_vars

\* ================================================================ claims

\* The serve loop of s has been left for good by the current serve_forever():
\* the thread is past the loop, or will leave at its next test of the flag.
LoopExited(s) ==
    \/ tpc[s] \in {"none", "finally", "returning", "done"}
    \/ tpc[s] \in {"started", "test"} /\ shutdown_request[s]

\* What the wire protocol promises the client of connection c.
Expected(c) == message[conns[c].to] \o <<NUL>>

\* C1 (as stated): every connection the server has closed received exactly the
\* configured message followed by one NUL byte, and the server read nothing of
\* what the client wrote.
C1_EveryConnectionGetsFullResponse ==
    \A c \in DOMAIN conns :
        conns[c].srv = "closed" =>
            /\ conns[c].rx = Expected(c)
            /\ conns[c].unread = (IF conns[c].kind = "client" THEN 1 ELSE 0)

\* C1 (amended): every connection the server has closed received a prefix of
\* message + NUL, and nothing else: the whole of it unless the write failed with an
\* I/O error, which happens only when the client had already disconnected.  The
\* server read nothing.  Connections not yet handled have received nothing.
C1_ResponseOrWriteError ==
    \A c \in DOMAIN conns :
        /\ conns[c].srv = "closed" =>
            /\ IsPrefix(conns[c].rx, Expected(c))
            /\ conns[c].err <=> conns[c].rx # Expected(c)
            /\ conns[c].err => conns[c].cli = "gone"
            /\ conns[c].unread = (IF conns[c].kind = "client" THEN 1 ELSE 0)
        /\ conns[c].srv \in {"refused", "queued", "reset"} => conns[c].rx = <<>>

\* Two sequential clients of one server, both still connected, both answered in
\* full and closed.
C1_Witness ==
    \E c1, c2 \in DOMAIN conns :
        /\ c1 # c2
        /\ \A c \in {c1, c2} :
            /\ conns[c].srv = "closed"
            /\ conns[c].cli = "open"
            /\ conns[c].rx = Expected(c)

\* C2: in every state where shutdown() has returned and its caller has made no
\* further call, the serving thread is out of its accept loop, so no connection is
\* accepted.
C2_ShutdownReturnsAfterLoopExit ==
    dpc \in {"shutdown_returned", "join", "exit_returned"} => LoopExited(dsrv)

\* shutdown() has returned from a serve loop that ran, and a connection that
\* arrived since waits unanswered.
C2_Witness ==
    /\ dpc = "shutdown_returned"
    /\ ~inExit
    /\ tpc[dsrv] \in {"returning", "done"}
    /\ \E c \in DOMAIN conns : conns[c].srv = "queued" /\ conns[c].to = dsrv

\* C3: when __exit__ has completed, whether or not the body raised, the background
\* thread has ended and the listening socket is closed.
C3_ExitReleasesEverything ==
    dpc = "exit_returned" =>
        /\ ~ThreadAlive(dsrv)
        /\ sock[dsrv] = "closed"
        /\ backlog[dsrv] = <<>>

\* __exit__ has completed after the body raised.
C3_Witness ==
    /\ dpc = "exit_returned"
    /\ bodyRaised[dsrv]
    /\ tpc[dsrv] = "done"


\* C6 (as stated): once shutdown() has been invoked on a running serve loop, the
\* loop goes on for no longer than the timeout given to the constructor.
C6_ShutdownObservedWithinTimeout ==
    \A s \in Servers : sdElapsed[s] <= timeout[s]

\* C6 (amended): once shutdown() has been invoked on a running serve loop, the loop
\* goes on for no longer than serve_forever()'s poll interval, whatever timeout the
\* constructor was given, and also when no connection arrives.
C6_ShutdownObservedWithinPollInterval ==
    \A s \in Servers : sdElapsed[s] <= PollInterval

\* A whole poll interval has passed since shutdown() was invoked, the loop is
\* still in select() and no connection is pending.
C6_Witness ==
    \E s \in Servers :
        /\ shutdown_request[s]
        /\ tpc[s] = "select"
        /\ mode[s] = "forever"
        /\ sdElapsed[s] = PollInterval
        /\ backlog[s] = <<>>

\* C7 (as stated): a handle_request() call that has returned has handled exactly
\* one connection.
C7_HandleRequestHandlesExactlyOne ==
    \A s \in Servers : mode[s] = "once" /\ tpc[s] = "done" => nHandled[s] = 1

\* C7 (amended): a handle_request() call handles at most one connection, and none
\* only when self.timeout elapsed with nothing pending; it closes the connection
\* before it returns and never puts the server in the Serving state.
C7_HandleRequestHandlesAtMostOne ==
    \A s \in Servers :
        mode[s] = "once" =>
            /\ nHandled[s] <= 1
            /\ State(s) # "Serving"
            /\ tpc[s] \in {"select", "accepted", "handled", "done"}
            /\ tpc[s] = "done" /\ nHandled[s] = 0 => selLeft[s] = 0
            /\ tpc[s] = "done" => cur[s] = 0
            /\ tpc[s] = "done" /\ nHandled[s] = 1 =>
                   \E c \in DOMAIN conns : conns[c].srv = "closed" /\ conns[c].to = s

\* handle_request() answered one connection, returned, and the server was closed.
C7_Witness ==
    \E s \in Servers :
        /\ mode[s] = "once"
        /\ tpc[s] = "done"
        /\ nHandled[s] = 1
        /\ sock[s] = "closed"

\* C8 (as stated): a Stopped server never becomes Serving or Bound again, and a
\* Serving server never goes back to Bound.
C8_LifecycleOneWay ==
    [][\A s \in Servers :
          /\ State(s) = "Stopped" => State(s)' = "Stopped"
          /\ State(s) = "Serving" => State(s)' # "Bound"]_vars

\* C8 (amended): a server whose listening socket has been closed is Stopped for
\* good, and __exit__ leaves it so; a server that is Serving or Stopped never goes
\* back to Bound, and a constructed server is never unbound again.  (A server
\* stopped by shutdown() alone, its socket still open, serves again when
\* serve_forever() is called again.)
C8_StoppedIsFinal ==
    [][/\ \A s \in Servers :
            /\ sock[s] = "closed" => sock'[s] = "closed" /\ State(s)' = "Stopped"
            /\ State(s) \in {"Serving", "Stopped"} => State(s)' \in {"Serving", "Stopped"}
            /\ State(s) # "Unbound" => State(s)' # "Unbound"
       /\ dpc' = "exit_returned" => sock'[dsrv'] = "closed"]_vars

\* serve_forever() is run again on a Stopped server: it is at its loop test and
\* the server is still Stopped.
C8_Witness ==
    \E s \in Servers : sock[s] = "closed" /\ tpc[s] = "test" /\ ~shutdown_request[s]


\* C4: after a server has been closed, by __exit__ or by close(), with no thread
\* of it left running, and before any new server is bound, its pair is free: a
\* connect to it is refused and a second server can be bound to it at once.
C4_PairFreeAfterClose ==
    \A s \in Servers :
        sock[s] = "closed" /\ ~ThreadAlive(s) /\ Listeners(port[s]) = {} =>
            /\ ~ConnectSucceeds(port[s])
            /\ CanBind(port[s])

\* C5: at most one socket listens on a pair in every state, and a constructor
\* binds only a pair that no listener holds, in the very step that constructs it.
C5_OneListenerPerPair ==
    /\ [](\A p \in Ports : Cardinality(Listeners(p)) <= 1)
    /\ [][\A s \in Servers :
             sock[s] = "none" /\ sock'[s] # "none" =>
                 /\ sock'[s] = "listening"
                 /\ Listeners(port'[s]) = {}]_vars

\* A constructor failed with AddressInUse, the first listener was released, and
\* the other server now listens on the pair.
C5_Witness ==
    \E s1, s2 \in Servers :
        /\ lastError = "AddressInUse"
        /\ sock[s1] = "closed"
        /\ sock[s2] = "listening"
        /\ port[s1] = port[s2]

\* C9: wait_server_up has returned successfully only if a listener has been bound
\* to its very pair and a probe connection to that pair was established.
C9_UpOnlyAfterBind ==
    ppc = "ok" =>
        /\ pport \in everBound
        /\ conns # <<>>
        /\ conns[Len(conns)].kind = "probe"
        /\ conns[Len(conns)].port = pport
        /\ conns[Len(conns)].srv # "refused"
        /\ conns[Len(conns)].to # NoServer

\* The server was bound only after the poller had begun: the call returned after
\* at least one refused attempt and one sleep.
C9_Witness ==
    /\ ppc = "ok"
    /\ pelapsed > 0

\* C10: a wait_server_up call never runs past its timeout; refused attempts surface
\* nothing; a call that ends without a successful attempt ends with exactly one
\* Timeout error carrying port and elapsed time; and while the call runs, a step
\* of it or the passing of time is always possible.
C10_TimeoutEndsTheCall ==
    /\ ppc \in {"attempt", "sleep"} => pelapsed <= ptimeout /\ praised = <<>>
    /\ ppc = "sleep" => pelapsed < ptimeout
    /\ ppc = "ok" => praised = <<>>
    /\ ppc = "timeout" =>
        /\ praised = <<[type |-> "Timeout", port |-> pport, elapsed |-> pelapsed]>>
        /\ pelapsed >= ptimeout
    /\ ppc = "attempt" => ENABLED PollerStep
    /\ ppc = "sleep" => ENABLED (Tick \/ \E s \in Servers : ServeStep(s))

\* Nothing ever listened on the pair and the call ended with Timeout.
C10_Witness ==
    /\ ppc = "timeout"
    /\ pport \notin everBound
    /\ pelapsed = ptimeout


\* A probe of the poller was connected to the server of connection c before c.
ProbedBefore(c) ==
    \E k \in 1 .. (c - 1) :
        /\ conns[k].kind = "probe"
        /\ conns[k].to = conns[c].to
        /\ conns[k].srv # "refused"

\* A client's connection made after a successful probe is established, the client
\* is waiting for the response, and the server is inside a serving call.
ClientWaitsAfterProbe(c) ==
    IF c \in DOMAIN conns /\ conns[c].srv \in {"queued", "accepted"}
    THEN /\ conns[c].kind = "client"
         /\ conns[c].cli = "open"
         /\ ProbedBefore(c)
         /\ ThreadAlive(conns[c].to)
    ELSE FALSE

\* ... and that call is serve_forever().
ClientWaitsOnServeForever(c) ==
    IF ClientWaitsAfterProbe(c) THEN mode[conns[c].to] = "forever" ELSE FALSE

\* The client of c has the whole response, or the test has stopped the server:
\* shutdown() was invoked or the listening socket was closed.
AnsweredOrStopped(c) ==
    IF c \in DOMAIN conns /\ conns[c].srv # "refused"
    THEN \/ conns[c].rx = Expected(c)
         \/ shutdown_request[conns[c].to]
         \/ is_shut_down[conns[c].to]
         \/ sock[conns[c].to] = "closed"
    ELSE FALSE

\* C11 (as stated): after a successful wait_server_up, a client that connects to
\* the same server while it is serving, in either mode, goes on to read the full
\* response (unless the test stops the server first).
C11_ClientAfterProbeIsAnswered ==
    \A c \in 1 .. (MaxConns + 1) : ClientWaitsAfterProbe(c) ~> AnsweredOrStopped(c)

\* C11 (amended): after a successful wait_server_up, a client that connects to the
\* same server while it runs serve_forever() goes on to read the full response
\* (unless the test stops the server first): the probe is answered and closed like
\* any connection and the loop goes on.  (A handle_request() call spends its one
\* answer on the probe.)
C11_ClientAfterProbeIsAnsweredByServeForever ==
    \A c \in 1 .. (MaxConns + 1) :
        ClientWaitsOnServeForever(c) ~> AnsweredOrStopped(c)

\* serve_forever() answered the probe and then, in full, the client that connected
\* after it.
C11_Witness ==
    \E c \in DOMAIN conns :
        /\ conns[c].kind = "client"
        /\ ProbedBefore(c)
        /\ mode[conns[c].to] = "forever"
        /\ conns[c].srv = "closed"
        /\ conns[c].rx = Expected(c)
        /\ ppc = "ok"

\* A poller call has returned, with success or with Timeout.
PollerReturned == ppc \in {"ok", "timeout", "d_ok", "d_timeout"}

\* The probe connections that were established.
Probes == {c \in DOMAIN conns : conns[c].kind = "probe" /\ conns[c].srv # "refused"}

\* C12: once a poller call has made an attempt, and in every state after it has
\* returned, with success or with Timeout, its probe socket is closed: no probe
\* socket and no probe's end of a connection is open.
C12_ProbeClosedBeforeReturn ==
    /\ PollerReturned \/ ppc \in {"sleep", "d_sleep"} => pprobe = "closed"
    /\ pprobe # "open"
    /\ \A c \in DOMAIN conns : conns[c].kind = "probe" => conns[c].cli = "gone"

\* wait_server_up has returned while the server is still busy with the probe's
\* connection, which the poller has already closed.
C12_Witness ==
    /\ ppc = "ok"
    /\ pprobe = "closed"
    /\ \E c \in Probes : conns[c].srv = "accepted" /\ conns[c].cli = "gone"

\* C13: wait_server_down returns only in the step of an attempt that failed (nothing
\* listens on the pair, no connection is made); an attempt that fails ends the call
\* at once; a call that ends with Timeout made an attempt that succeeded in every
\* tick of its timeout and raises the one Timeout error; the call never runs past
\* its timeout.
C13_DownReturnsOnFirstFailure ==
    /\ [][ppc' = "d_ok" /\ ppc # "d_ok" =>
             /\ ppc = "d_attempt"
             /\ Listeners(pport) = {}
             /\ conns' = conns]_vars
    /\ [][ppc = "d_attempt" /\ ppc' # "d_attempt" /\ Listeners(pport) = {}
             /\ pelapsed < ptimeout => ppc' = "d_ok"]_vars
    /\ [](ppc = "d_timeout" =>
             /\ praised = <<[type |-> "Timeout", port |-> pport, elapsed |-> pelapsed]>>
             /\ pelapsed >= ptimeout
             /\ Cardinality({c \in Probes : conns[c].port = pport}) >= ptimeout)
    /\ [](ppc \in {"d_attempt", "d_sleep"} => pelapsed <= ptimeout /\ praised = <<>>)
    /\ [](ppc = "d_ok" => praised = <<>>)

\* wait_server_down found the server up at first, slept, and returned once an
\* attempt failed.
C13_Witness ==
    /\ ppc = "d_ok"
    /\ pelapsed > 0
    /\ \E c \in Probes : conns[c].port = pport

C15_HandlerErrorIsIsolated ==
    \A s \in Servers :
        /\ raisedInLoop[s] => sock[s] = "closed"
        /\ mode[s] = "forever" /\ tpc[s] \in {"finally", "returning", "done"} =>
               shutdown_request[s] \/ is_shut_down[s] \/ raisedInLoop[s]
        /\ \A c1, c2 \in DOMAIN conns :
               /\ c1 < c2
               /\ conns[c1].to = s /\ conns[c2].to = s
               /\ conns[c1].err
               /\ conns[c2].srv = "closed" /\ conns[c2].cli = "open"
               => conns[c2].rx = Expected(c2) /\ ~conns[c2].err

\* The write to a client that had disconnected failed, and the next client of the
\* same serve_forever() was answered in full.
C15_Witness ==
    \E c1, c2 \in DOMAIN conns :
        /\ c1 < c2
        /\ conns[c1].to = conns[c2].to
        /\ conns[c1].err /\ conns[c1].srv = "closed"
        /\ conns[c2].srv = "closed" /\ conns[c2].rx = Expected(c2)
        /\ mode[conns[c2].to] = "forever"
        /\ ~raisedInLoop[conns[c2].to]

\* The step in which wait_server_up returns successfully.
UpReturns == ppc' = "ok" /\ ppc # "ok"

\* C19 (as stated): when wait_server_up returns successfully, the server on its
\* pair is inside serve_forever() or a handle_request() call.
C19_UpMeansServing ==
    [][UpReturns => \E s \in Listeners(pport) : InServeForever(s) \/ InLoop(s)]_vars

\* C19 (amended): when wait_server_up returns successfully, a server is bound to
\* its pair and listening, and the probe's connection is queued on its socket; the
\* server may be merely constructed.
C19_UpMeansListening ==
    [][UpReturns =>
          \E s \in Listeners(pport) :
              /\ State(s) \in {"Bound", "Serving", "Stopped"}
              /\ backlog'[s] = Append(backlog[s], Len(conns'))
              /\ conns'[Len(conns')].kind = "probe"
              /\ conns'[Len(conns')].to = s]_vars

\* wait_server_up returned successfully for a server that was constructed and
\* never served: the probe's connection waits in its queue.
C19_Witness ==
    /\ ppc = "ok"
    /\ \E s \in Listeners(pport) :
        /\ tpc[s] = "none"
        /\ State(s) = "Bound"
        /\ backlog[s] # <<>>

\* The step in which __enter__ runs and returns.
EnterReturns(s) == scope[s] # "entered" /\ scope'[s] = "entered"

\* C20 (as stated): when __enter__ has returned, the background thread is
\* executing serve_forever(): the server is Serving.
C20_EnterReturnsServing ==
    [][\A s \in Servers : EnterReturns(s) => State(s)' = "Serving"]_vars

\* C20 (amended): when __enter__ returns, the background thread has been started
\* and will run serve_forever(), but need not have begun it; the listening socket
\* is as the constructor left it, so connections made meanwhile are queued.
C20_EnterStartsThread ==
    /\ [][\A s \in Servers :
             EnterReturns(s) =>
                 /\ tpc'[s] = "started"
                 /\ mode'[s] = "forever"
                 /\ sock'[s] = sock[s]
                 /\ backlog'[s] = backlog[s]]_vars
    /\ [](\A s \in Servers : tpc[s] = "started" => ENABLED serve_forever_begin(s))

\* __enter__ has returned, a client has connected, and the thread has not begun
\* serve_forever().
C20_Witness ==
    \E s \in Servers :
        /\ scope[s] = "entered"
        /\ dpc = "idle"
        /\ tpc[s] = "started"
        /\ State(s) = "Bound"
        /\ backlog[s] # <<>>

\* C16: whenever an installed_module(name) context has been left, name is no
\* longer a key of sys.modules.
C16_ModuleRemovedOnExit ==
    lastExit.how # "none" => lastExit.name \notin sys_modules

\* The redirections of one standard stream that are open, outermost first.
OpenFor(target) == SelectSeq(rstack, LAMBDA r : r.target = target)

\* The stream that should be current: the output of the innermost open
\* redirection of it, or the stream the process started with.
Current(target) ==
    IF OpenFor(target) # <<>>
    THEN OpenFor(target)[Len(OpenFor(target))].output
    ELSE IF target = "stdout" THEN StdOut ELSE StdErr

\* C17: in every state each standard stream is the output of the innermost open
\* redirection of it (the object given, or the StringIO made for it), and the
\* stream the process started with when none is open: every exit, normal or not,
\* puts back the stream that was current when its context was entered; and what
\* is written goes to that stream.
C17_RedirectAndRestore ==
    /\ [](sys_stdout = Current("stdout") /\ sys_stderr = Current("stderr"))
    /\ [](\A i \in DOMAIN rstack : rstack[i].output # None)
    /\ [][lastWrite' # lastWrite => lastWrite'.stream = Current(lastWrite'.to)]_vars

\* A nested redirection of stdout to a new StringIO was written to and left: the
\* outer redirection's object is current again.
C17_Witness ==
    /\ Len(rstack) = 1
    /\ rstack[1].target = "stdout"
    /\ rstack[1].output \in Given
    /\ sys_stdout = rstack[1].output
    /\ lastWrite = [to |-> "stdout", stream |-> <<"StringIO", 2>>]

\* The entities no module can adopt: 3 has no __module__, dict's is read-only.
Unadoptable(e) == e \in {"three", "dict"}

\* What the exception should say of the arguments, in their order.
ExpectedReport ==
    [k \in DOMAIN SelectSeq(aargs, Unadoptable) |->
        LET e == SelectSeq(aargs, Unadoptable)[k] IN
            [obj |-> e,
             why |-> IF e = "three" THEN "has no __module__ attribute"
                     ELSE "__module__ attribute is ready-only"]]

\* C18: an adopt() call given an unadoptable entity goes no further than its
\* check and raises AdoptException; the exception has one message for every
\* unadoptable argument; and no __module__ differs from what it was when the call
\* began.  A call raises AdoptException for no other reason.
C18_AdoptRaisesBeforeChanging ==
    /\ (\E i \in DOMAIN aargs : Unadoptable(aargs[i])) =>
           /\ aresult \in {"running", "AdoptException"}
           /\ aresult = "running" => Len(astack) = 1 /\ Top.ph = "check"
           /\ module_of = module_before
    /\ aresult = "AdoptException" =>
           /\ \E i \in DOMAIN aargs : Unadoptable(aargs[i])
           /\ areported = ExpectedReport
           /\ astack = <<>>

\* adopt(m, function, dict) raised: the exception names dict, and the function
\* still belongs to the module that defines it.
C18_Witness ==
    /\ aresult = "AdoptException"
    /\ aargs = <<"function", "dict">>
    /\ Len(areported) = 1
    /\ module_of["function"] = "test"

\* The connections whose per-connection socket is open at server s.
OpenAt(s) == {c \in DOMAIN conns : conns[c].to = s /\ conns[c].srv = "accepted"}

\* C21: at most one per-connection socket is open at a server in every state (the
\* one being handled), whatever the clients did and whether or not a write failed;
\* and a connection is accepted only when none is open.
C21_OneConnectionAtATime ==
    /\ [](\A s \in Servers :
             /\ Cardinality(OpenAt(s)) <= 1
             /\ OpenAt(s) = (IF cur[s] = 0 THEN {} ELSE {cur[s]}))
    /\ [][\A s \in Servers : OpenAt(s)' # OpenAt(s) /\ OpenAt(s)' # {} => OpenAt(s) = {}]_vars

\* The write to the first connection failed and it was closed; the second is the
\* only one open.
C21_Witness ==
    \E s \in Servers, c1, c2 \in DOMAIN conns :
        /\ c1 < c2
        /\ conns[c1].to = s /\ conns[c1].err /\ conns[c1].srv = "closed"
        /\ OpenAt(s) = {c2}
        /\ mode[s] = "forever"

\* C22: a scoped exit that has begun goes on to return, under every interleaving
\* of the two threads: the shutdown() it calls returns, and so does the join.
C22_ExitTerminates ==
    /\ (inExit /\ dpc = "shutdown_wait") ~> (dpc = "shutdown_returned")
    /\ (inExit /\ dpc = "join") ~> (dpc = "exit_returned")
    /\ inExit ~> ~inExit

\* __exit__ waits in shutdown() and the background thread has not yet begun
\* serve_forever().
C22_Witness ==
    /\ inExit
    /\ dpc = "shutdown_wait"
    /\ dsrv \in Servers
    /\ tpc[dsrv] = "started"
    /\ ~is_shut_down[dsrv]

\* The keys other than key are held, with the same values, by both dictionaries.
SameExcept(d1, d2, key) ==
    /\ DOMAIN d1 \ {key} = DOMAIN d2 \ {key}
    /\ \A k \in DOMAIN d1 \ {key} : d1[k] = d2[k]

\* C23: entering temp_key(d, key, value) makes d[key] == value and changes no
\* other key; leaving it, normally or because the body raised, makes d[key] the
\* value the key had before the entry, or leaves the key absent if it was absent
\* then, and changes no other key; nested contexts on one key included.
C23_TempKeyRoundTrip ==
    [][/\ Len(tstack') > Len(tstack) =>
            LET top == tstack'[Len(tstack')] IN
                /\ top.key \in DOMAIN d'
                /\ d'[top.key] = top.value
                /\ SameExcept(d, d', top.key)
       /\ Len(tstack') < Len(tstack) =>
            LET top == tstack[Len(tstack)] IN
                /\ top.key \in DOMAIN d' <=> top.key \in DOMAIN top.before
                /\ top.key \in DOMAIN top.before => d'[top.key] = top.before[top.key]
                /\ SameExcept(d, d', top.key)]_vars

\* Of two nested contexts on one key, entered while the key held None, the inner
\* one has been left because its body raised, and the key holds the value the
\* outer one gave it.
C23_Witness ==
    /\ Len(tstack) = 1
    /\ tstack[1].key_existed
    /\ tstack[1].previous_value = None
    /\ tlast # NoExit
    /\ tlast.name = tstack[1].key
    /\ tlast.raised
    /\ tlast.error = ""
    /\ tstack[1].key \in DOMAIN d
    /\ d[tstack[1].key] = tstack[1].value
    /\ tstack[1].value # None

\* Every argument of the adopt() call, and each adoptable attribute of a class
\* among them that was defined in the class's module, belongs to an adopting module.
AdoptedAll ==
    \A i \in DOMAIN aargs :
        LET entity == get_adoptable_value(aargs[i]) IN
            /\ module_of[entity] \in PyModules
            /\ isclass(entity) =>
                   \A a \in attrs[entity] :
                       (/\ is_adoptable(a)
                        /\ module_before[get_adoptable_value(a)] = module_before[entity])
                       => module_of[get_adoptable_value(a)] \in PyModules

\* C24: no step of an adopt() call runs out of stack, whatever the attributes of
\* the classes refer to (a class itself, or the class that encloses it); and the
\* step by which the call returns leaves every class among its arguments, and
\* each of its adoptable attributes of the same module, in the adopting module.
C24_AdoptTerminatesAndAdoptsAll ==
    [][/\ aresult' # "RuntimeError"
       /\ (aresult = "running" /\ aresult' = "returned") => AdoptedAll']_vars

====
